---- MODULE Spec2Model ----
(***************************************************************************)
(* Model of backend/main.py: the /altitude request handler get_altitude,  *)
(* the TLE fetch it awaits, and calculate_altitude_series.                *)
(*                                                                         *)
(* Representation.                                                         *)
(*  - A timestamp string "YYYY-MM-DDTHH:MM:SSZ" is the tuple <<D,H,M,S>>:  *)
(*    D is the date part as a day index (0 stands for a date that matches *)
(*    the \d{4}-\d{2}-\d{2} pattern but is no calendar date), H, M, S are *)
(*    the two-digit fields.  A datetime is a number of seconds.           *)
(*  - A TLE line is the tuple of its characters.                          *)
(*  - Lengths in km are integers; an altitude is kept in hundredths of a  *)
(*    km (the two decimals round() keeps), NaN is the string "nan".       *)
(*  - The SGP4 propagator behind EarthSatellite.at is external: it is a   *)
(*    deterministic stub keyed by the catalog number of the element set.  *)
(*  - Coroutines run on one event loop: a handler runs without            *)
(*    interruption from one await to the next (variable running).         *)
(***************************************************************************)
EXTENDS Integers, Sequences, FiniteSets, TLC

\* ---------------------------------------------------------------- bounds
\* Number of request slots (requests in flight at the same time).
NumReq == 2

Req == 1..NumReq

\* --------------------------------------------------- program constants
EARTH_RADIUS_KM == 6371
MAX_DATA_POINTS == 20000
\* Query(..., ge=1) on n, Query(60, ge=1, le=3600) on step.
NoradMin == 1
StepMin == 1
StepMax == 3600

\* ------------------------------------------------------------ utilities
Min(a, b) == IF a < b THEN a ELSE b

\* datetime.fromisoformat on a string that matches the handler's regex:
\* the fields must form a calendar instant, else ValueError.
IsoValid(s) == s[1] >= 1 /\ s[2] < 24 /\ s[3] < 60 /\ s[4] < 60

fromisoformat(s) == ((s[1] * 24 + s[2]) * 60 + s[3]) * 60 + s[4]

\* current_time.strftime("%Y-%m-%dT%H:%M:%SZ")
strftime(t) == << t \div 86400, (t \div 3600) % 24, (t \div 60) % 60, t % 60 >>

\* int(total_seconds / step) + 1.  Where the code evaluates it,
\* total_seconds is a positive whole number of seconds below 2^53 and step
\* is in 1..3600, so the float quotient truncates to the integer quotient.
NumPoints(start_time, end_time, step) == ((end_time - start_time) \div step) + 1

\* str.strip(): drop leading and trailing blanks.
RECURSIVE lstrip(_)
lstrip(s) == IF s # << >> /\ Head(s) = " " THEN lstrip(Tail(s)) ELSE s

RECURSIVE rstrip(_)
rstrip(s) == IF s # << >> /\ s[Len(s)] = " " THEN rstrip(SubSeq(s, 1, Len(s) - 1)) ELSE s

strip(s) == rstrip(lstrip(s))

\* tle_line1[18:32].strip(): a Python slice never fails, it clips.
EpochSlice(line1) == strip(SubSeq(line1, 19, Min(32, Len(line1))))

\* ----------------------------------------------------------- timescale
\* ts = load.timescale(): the module-level Skyfield timescale, abstracted
\* to the offset it adds when it turns a UTC calendar time into its own
\* time.
load_timescale == [tt_minus_utc |-> 69]

\* ts.utc(year, month, day, hour, minute, second)
ts_utc(tsv, current_time) == current_time + tsv.tt_minus_utc

\* ------------------------------------------------------- element lines
\* Line 1 of an element set: catalog number in columns 3-7, epoch in
\* columns 19-32, 69 characters in all.
Line1(satnum, epoch) ==
    << "1", " " >> \o satnum \o << "U", " ", "9", "8", "0", "6", "7", "A", " ", " ", " " >>
    \o epoch
    \o << " ", " ", ".", "0", "0", "0", "1", "6", "7", "1", "7", " ", " ", "0", "0", "0",
          "0", "0", "-", "0", " ", " ", "1", "0", "2", "7", "0", "-", "3", " ", "0", " ",
          " ", "9", "0", "0", "5" >>

Line2(satnum) ==
    << "2", " " >> \o satnum
    \o << " ", " ", "5", "1", ".", "6", "4", "0", "0", " ", "2", "0", "8", ".", "9", "1",
          "6", "3", " ", "0", "0", "0", "6", "7", "0", "3", " ", "1", "3", "0", ".", "5",
          "3", "6", "0", " ", "3", "2", "5", ".", "0", "2", "8", "8", " ", "1", "5", ".",
          "4", "9", "5", "6", "0", "5", "3", "2", " ", " ", " ", " ", "1", "8" >>

EpochGood == << "2", "4", "0", "0", "1", ".", "5", "0", "0", "0", "0", "0", "0", "0" >>
EpochGarbled == << "2", "4", "0", "0", "X", ".", "5", "0", "0", "0", "A", "B", "C", "D" >>

SatIss == << "2", "5", "5", "4", "4" >>
SatDecayed == << "0", "0", "0", "0", "6" >>
SatZero == << "0", "0", "0", "0", "7" >>
SatRaises == << "0", "0", "0", "0", "8" >>

Digits == { "0", "1", "2", "3", "4", "5", "6", "7", "8", "9" }

\* The fixed length of an element line, and what the format asks of the
\* epoch field (year and fractional day of year: digits and one point).
TleLineLength == Len(Line1(SatIss, EpochGood))

NumericEpoch(f) ==
    /\ f # << >>
    /\ \A k \in 1..Len(f) : f[k] \in Digits \cup { "." }
    /\ Cardinality({ k \in 1..Len(f) : f[k] = "." }) = 1

Malformed(line1) ==
    \/ Len(line1) < TleLineLength
    \/ ~NumericEpoch(SubSeq(line1, 19, Min(32, Len(line1))))

\* ------------------------------------------------------------ CelesTrak
\* What gp.php answers for a catalog number: an HTTP status and the lines
\* of the body (name, line 1, line 2), or no answer in time.
Body(l1, l2) == << << "I", "S", "S" >>, l1, l2 >>

CelesTrak(norad_id) ==
    CASE norad_id = 1 -> [status |-> 200, lines |-> Body(Line1(SatIss, EpochGood), Line2(SatIss))]
      [] norad_id = 2 -> [status |-> 404, lines |-> << >>]
      [] norad_id = 3 -> [status |-> 200, lines |-> << << "N", "o", " ", "G", "P" >> >>]
      [] norad_id = 4 -> [status |-> 200,
                          lines |-> Body(SubSeq(Line1(SatIss, EpochGood), 1, 24), Line2(SatIss))]
      [] norad_id = 5 -> [status |-> 200, lines |-> Body(Line1(SatIss, EpochGarbled), Line2(SatIss))]
      [] norad_id = 6 -> [status |-> 200,
                          lines |-> Body(Line1(SatDecayed, EpochGood), Line2(SatDecayed))]
      [] norad_id = 7 -> [status |-> 200, lines |-> Body(Line1(SatZero, EpochGood), Line2(SatZero))]
      [] norad_id = 8 -> [status |-> 200,
                          lines |-> Body(Line1(SatRaises, EpochGood), Line2(SatRaises))]
      [] norad_id = 9 -> [status |-> 503, lines |-> << >>]
      [] OTHER -> [status |-> 0, lines |-> << >>]

\* ----------------------------------------------------------- exceptions
NoExc == [type |-> "none", status |-> 0, detail |-> ""]
HTTPException(status_code, detail) ==
    [type |-> "HTTPException", status |-> status_code, detail |-> detail]
ValueError(detail) == [type |-> "ValueError", status |-> 0, detail |-> detail]
LibraryError(detail) == [type |-> "Exception", status |-> 0, detail |-> detail]

\* fetch_tle_from_celestrak: the pair (line1, line2), or the exception it
\* raises.  status 0 stands for no answer within the client's timeout.
fetch_tle_from_celestrak(norad_id) ==
    LET response == CelesTrak(norad_id) IN
    IF response.status = 0
    THEN [exc |-> HTTPException(502, "CelesTrak request timed out"), line1 |-> << >>, line2 |-> << >>]
    ELSE IF response.status = 404
    THEN [exc |-> HTTPException(404, "NORAD ID not found in CelesTrak database"),
          line1 |-> << >>, line2 |-> << >>]
    ELSE IF response.status # 200
    THEN [exc |-> HTTPException(502, "CelesTrak returned status"), line1 |-> << >>, line2 |-> << >>]
    ELSE IF Len(response.lines) < 3
    THEN [exc |-> HTTPException(502, "Invalid TLE format received from CelesTrak"),
          line1 |-> << >>, line2 |-> << >>]
    ELSE [exc |-> NoExc, line1 |-> response.lines[2], line2 |-> response.lines[3]]

\* --------------------------------------------------- satellite library
\* The two builds of the element-set reader: one rejects a line that does
\* not follow the format with ValueError, the other reads whatever is in
\* the columns.  Which one is installed is fixed for the process.
Builds == { "strict", "lenient" }

NoSat == [exc |-> NoExc, satnum |-> << >>]

\* EarthSatellite(tle_line1, tle_line2, "Satellite", ts)
EarthSatellite(bld, tle_line1, tle_line2) ==
    IF bld = "strict" /\ Malformed(tle_line1)
    THEN [exc |-> ValueError("TLE format error"), satnum |-> << >>]
    ELSE [exc |-> NoExc, satnum |-> SubSeq(tle_line1, 3, Min(7, Len(tle_line1)))]

\* A float: a number, or NaN.  Positions hold whole km, altitudes hold
\* hundredths of a km.
Float(v) == [nan |-> FALSE, v |-> v]
NaN == [nan |-> TRUE, v |-> 0]

Vector(x, y, z) == << Float(x), Float(y), Float(z) >>
NaNVector == << NaN, NaN, NaN >>

\* Positions of the stub orbit, km, by phase.
OrbitTable ==
    << Vector(6771, 0, 0), Vector(4800, 4800, 0), Vector(0, 6771, 0), Vector(3900, 3900, 3900) >>

\* satellite.at(t).position.km for the stub propagator.  A failed
\* propagation is reported the way the library reports it, by a vector of
\* NaN and no exception; the last stub raises instead, as any call can.
propagate(satellite, t) ==
    LET good == [exc |-> NoExc, km |-> OrbitTable[(t % 4) + 1]] IN
    CASE satellite.satnum = SatDecayed ->
            IF t % 3 = 1 THEN [exc |-> NoExc, km |-> NaNVector] ELSE good
      [] satellite.satnum = SatZero ->
            IF t % 2 = 1 THEN [exc |-> NoExc, km |-> Vector(0, 0, 0)] ELSE good
      [] satellite.satnum = SatRaises ->
            IF t % 4 = 2 THEN [exc |-> LibraryError("propagation failed"), km |-> NaNVector]
            ELSE good
      [] OTHER -> good

\* ------------------------------------------------------------- altitude
\* Largest n in lo..hi with n * n <= s.
RECURSIVE isqrt(_, _, _)
isqrt(s, lo, hi) ==
    IF lo >= hi THEN lo
    ELSE LET mid == (lo + hi + 1) \div 2 IN
         IF mid * mid <= s THEN isqrt(s, mid, hi) ELSE isqrt(s, lo, mid - 1)

\* Largest f in lo..hi with (200 n + f)^2 <= 40000 s, given n = isqrt(s):
\* 400 n f + f^2 <= 40000 (s - n^2).
RECURSIVE halfcenti(_, _, _, _)
halfcenti(rest, n, lo, hi) ==
    IF lo >= hi THEN lo
    ELSE LET mid == (lo + hi + 1) \div 2 IN
         IF 400 * n * mid + mid * mid <= 40000 * rest
         THEN halfcenti(rest, n, mid, hi)
         ELSE halfcenti(rest, n, lo, mid - 1)

\* round((x**2 + y**2 + z**2) ** 0.5 - EARTH_RADIUS_KM, 2), in hundredths
\* of a km.  Arithmetic on NaN gives NaN, and round(NaN, 2) is NaN.
altitude_km(position) ==
    IF position[1].nan \/ position[2].nan \/ position[3].nan THEN NaN
    ELSE LET s == position[1].v * position[1].v + position[2].v * position[2].v
                  + position[3].v * position[3].v
             n == isqrt(s, 0, 12000)
             f == halfcenti(s - n * n, n, 0, 199)
         IN Float(((200 * n + f + 1) \div 2) - 100 * EARTH_RADIUS_KM)

\* -------------------------------------------------------------- handler
\* The Query(...) constraints FastAPI enforces before the handler body
\* runs (ge=1 on n; ge=1, le=3600 on step).  The timestamp pattern is met
\* by every timestamp of this model.
QueryValid(inp) == inp.n >= NoradMin /\ inp.step >= StepMin /\ inp.step <= StepMax

\* Variant of WindowCheck: the cap comparison is >= where the code has >.
WindowCheckCapInclusive(start_time, end_time, step) ==
    IF start_time >= end_time
    THEN HTTPException(400, "Start time must be before end time")
    ELSE IF NumPoints(start_time, end_time, step) >= MAX_DATA_POINTS
    THEN HTTPException(400, "Too many data points")
    ELSE NoExc

\* Variant of WindowCheck: the window is not checked before the fetch.
WindowCheckAbsent(start_time, end_time, step) == NoExc

\* The two window checks of the try body: the exception raised, or NoExc.
WindowCheck(start_time, end_time, step) ==
    IF start_time >= end_time
    THEN HTTPException(400, "Start time must be before end time")
    ELSE IF NumPoints(start_time, end_time, step) > MAX_DATA_POINTS
    THEN HTTPException(400, "Too many data points")
    ELSE NoExc

\* The try body up to the fetch: parse both timestamps, check the window.
BeforeFetch(inp) ==
    IF ~IsoValid(inp.start) \/ ~IsoValid(inp.end)
    THEN ValueError("Invalid isoformat string")
    ELSE WindowCheck(fromisoformat(inp.start), fromisoformat(inp.end), inp.step)

NoBody ==
    [norad_id |-> 0, start |-> << >>, end |-> << >>, step_seconds |-> 0, points |-> << >>,
     meta |-> [tle_source |-> "", tle_epoch |-> << >>, earth_radius_km |-> 0]]

NoResp == [status |-> 0, detail |-> "", cause |-> NoExc, body |-> NoBody]

\* The except clauses of get_altitude: what the caller gets for an
\* exception raised in the try body.  cause keeps the exception itself.
Translate(e) ==
    IF e.type = "ValueError"
    THEN [status |-> 400, detail |-> "Invalid timestamp format", cause |-> e, body |-> NoBody]
    ELSE [status |-> 500, detail |-> "Internal server error", cause |-> e, body |-> NoBody]

\* FastAPI's answer to a request that fails the Query constraints.
Unprocessable ==
    [status |-> 422, detail |-> "Unprocessable Entity", cause |-> NoExc, body |-> NoBody]

\* The dictionary the handler returns.
Success(inp, pts, epoch) ==
    [status |-> 200, detail |-> "", cause |-> NoExc,
     body |-> [norad_id |-> inp.n, start |-> inp.start, end |-> inp.end,
               step_seconds |-> inp.step, points |-> pts,
               meta |-> [tle_source |-> "celestrak", tle_epoch |-> epoch,
                         earth_radius_km |-> EARTH_RADIUS_KM]]]

\* Variant of NextTime: the increment uses i where the code uses i + 1.
NextTimeStale(start_time, i, step_seconds) == start_time + i * step_seconds

\* current_time = start_time + (i + 1) * timedelta(seconds=step_seconds)
NextTime(start_time, i, step_seconds) == start_time + (i + 1) * step_seconds

\* Variant of BreakNow: the comparison is >= where the code has >.
BreakNowInclusive(current_time, end_time) == current_time >= end_time

\* if current_time > end_time: break
BreakNow(current_time, end_time) == current_time > end_time

\* ------------------------------------------------------------- requests
Stamp(d, h, m, s) == << d, h, m, s >>
Request(n, start, end, step) == [n |-> n, start |-> start, end |-> end, step |-> step]
NoReq == Request(0, << >>, << >>, 0)

T0 == Stamp(1, 0, 0, 0)

\* Requests small enough to run under interleaving: every catalog number
\* with a four-point window, two more windows, and one request for each way
\* of being refused.
ConcurrentInputs ==
    { Request(n, T0, Stamp(1, 0, 0, 3), 1) : n \in 1..9 }
    \cup { Request(1, T0, Stamp(1, 0, 0, 5), 2),
           Request(1, T0, Stamp(1, 0, 0, 3), 3600),
           Request(1, T0, T0, 1),
           Request(1, Stamp(1, 0, 0, 3), T0, 1),
           Request(1, Stamp(1, 24, 0, 0), Stamp(1, 24, 0, 3), 1),
           Request(1, T0, Stamp(0, 0, 0, 3), 1),
           Request(1, T0, Stamp(1, 5, 33, 20), 1),
           Request(1, T0, Stamp(1, 0, 0, 3), 0),
           Request(1, T0, Stamp(1, 0, 0, 3), 3601),
           Request(0, T0, Stamp(1, 0, 0, 3), 1) }

\* Windows at the point cap and the one-hour window, for one client.
SoloInputs ==
    { Request(n, T0, Stamp(1, 0, 0, 3), 1) : n \in 1..9 }
    \cup { Request(1, T0, Stamp(1, 0, 0, 5), 2),
           Request(1, T0, Stamp(1, 1, 0, 0), 60),
           Request(1, T0, Stamp(1, 5, 33, 19), 1),
           Request(1, T0, Stamp(1, 5, 33, 20), 1),
           Request(2, T0, Stamp(834, 7, 59, 59), 3600),
           Request(2, T0, Stamp(834, 8, 0, 0), 3600),
           Request(1, T0, T0, 1),
           Request(1, Stamp(1, 24, 0, 0), Stamp(1, 24, 0, 3), 1),
           Request(1, T0, Stamp(1, 0, 0, 3), 3601),
           Request(0, T0, Stamp(1, 0, 0, 3), 1) }

Inputs(prof) == IF prof = "solo" THEN SoloInputs ELSE ConcurrentInputs
Clients(prof) == IF prof = "solo" THEN { 1 } ELSE Req

\* ---------------------------------------------------------------- state
VARIABLES
    ts,            \* the module-level timescale
    build,         \* the installed build of the element-set reader
    profile,       \* the clients' workload
    running,       \* the request whose handler holds the event loop, or 0
    pc,            \* per request: "idle", "await", "loop", "ret", "done"
    req,           \* per request: the query parameters
    frame,         \* per request: start_time, end_time, num_points of get_altitude
    resp,          \* per request: what the caller got
    hist,          \* per request: whether it fetched, how many propagations it
                   \* made, whether one of them failed
    tle,           \* tle_line1, tle_line2 and tle_epoch_str of the running handler
    satellite,     \* calculate_altitude_series: satellite
    num_points,    \* calculate_altitude_series: num_points
    i,             \* calculate_altitude_series: iterations completed
    current_time,  \* calculate_altitude_series: current_time
    points         \* calculate_altitude_series: points

vars == << ts, build, profile, running, pc, req, frame, resp, hist, tle, satellite,
           num_points, i, current_time, points >>

NoFrame == [start_time |-> 0, end_time |-> 0, num_points |-> 0]
NoHist == [fetched |-> FALSE, propagations |-> 0, failed |-> FALSE]
NoTle == [line1 |-> << >>, line2 |-> << >>, epoch_str |-> << >>]

\* No activation of calculate_altitude_series exists.
NoSeries ==
    /\ tle = NoTle
    /\ satellite = NoSat
    /\ num_points = 0
    /\ i = 0
    /\ current_time = 0
    /\ points = << >>

NoSeriesNext ==
    /\ tle' = NoTle
    /\ satellite' = NoSat
    /\ num_points' = 0
    /\ i' = 0
    /\ current_time' = 0
    /\ points' = << >>

SeriesVars == << tle, satellite, num_points, i, current_time, points >>

InitCommon ==
    /\ ts = load_timescale
    /\ build \in Builds
    /\ running = 0
    /\ pc = [r \in Req |-> "idle"]
    /\ req = [r \in Req |-> NoReq]
    /\ frame = [r \in Req |-> NoFrame]
    /\ resp = [r \in Req |-> NoResp]
    /\ hist = [r \in Req |-> NoHist]
    /\ NoSeries

Init == profile = "concurrent" /\ InitCommon
InitSolo == profile = "solo" /\ InitCommon

\* The handler ends with an answer for the caller.
Answer(r, response) ==
    /\ resp' = [resp EXCEPT ![r] = response]
    /\ pc' = [pc EXCEPT ![r] = "done"]

\* A request arrives whose parameters FastAPI rejects: the body never runs.
ReceiveInvalidQuery(r) ==
    /\ running = 0 /\ pc[r] = "idle" /\ r \in Clients(profile)
    /\ \E inp \in Inputs(profile) :
          /\ ~QueryValid(inp)
          /\ req' = [req EXCEPT ![r] = inp]
          /\ Answer(r, Unprocessable)
    /\ UNCHANGED << ts, build, profile, running, frame, hist, SeriesVars >>

\* A request arrives and the try body raises before the fetch.
ReceiveRejected(r) ==
    /\ running = 0 /\ pc[r] = "idle" /\ r \in Clients(profile)
    /\ \E inp \in Inputs(profile) :
          /\ QueryValid(inp)
          /\ BeforeFetch(inp) # NoExc
          /\ req' = [req EXCEPT ![r] = inp]
          /\ Answer(r, Translate(BeforeFetch(inp)))
    /\ UNCHANGED << ts, build, profile, running, frame, hist, SeriesVars >>

\* A request arrives, passes the checks and awaits the fetch it issues.
ReceiveAccepted(r) ==
    /\ running = 0 /\ pc[r] = "idle" /\ r \in Clients(profile)
    /\ \E inp \in Inputs(profile) :
          /\ QueryValid(inp)
          /\ BeforeFetch(inp) = NoExc
          /\ req' = [req EXCEPT ![r] = inp]
          /\ frame' = [frame EXCEPT ![r] =
                [start_time |-> fromisoformat(inp.start),
                 end_time |-> fromisoformat(inp.end),
                 num_points |-> NumPoints(fromisoformat(inp.start),
                                          fromisoformat(inp.end), inp.step)]]
    /\ hist' = [hist EXCEPT ![r].fetched = TRUE]
    /\ pc' = [pc EXCEPT ![r] = "await"]
    /\ UNCHANGED << ts, build, profile, running, resp, SeriesVars >>

\* The fetch raises: the handler's except clause answers.
FetchFailed(r) ==
    /\ running = 0 /\ pc[r] = "await"
    /\ fetch_tle_from_celestrak(req[r].n).exc # NoExc
    /\ Answer(r, Translate(fetch_tle_from_celestrak(req[r].n).exc))
    /\ UNCHANGED << ts, build, profile, running, req, frame, hist, SeriesVars >>

\* The fetch returns the lines and EarthSatellite raises on them.
SatelliteRejected(r) ==
    /\ running = 0 /\ pc[r] = "await"
    /\ LET res == fetch_tle_from_celestrak(req[r].n) IN
          /\ res.exc = NoExc
          /\ EarthSatellite(build, res.line1, res.line2).exc # NoExc
          /\ Answer(r, Translate(EarthSatellite(build, res.line1, res.line2).exc))
    /\ UNCHANGED << ts, build, profile, running, req, frame, hist, SeriesVars >>

\* The fetch returns the lines: slice the epoch, enter
\* calculate_altitude_series with the locals f of get_altitude.
StartSeries(r, f) ==
    LET res == fetch_tle_from_celestrak(req[r].n) IN
    /\ res.exc = NoExc
    /\ EarthSatellite(build, res.line1, res.line2).exc = NoExc
    /\ tle' = [line1 |-> res.line1, line2 |-> res.line2, epoch_str |-> EpochSlice(res.line1)]
    /\ satellite' = EarthSatellite(build, res.line1, res.line2)
    /\ num_points' = NumPoints(f.start_time, f.end_time, req[r].step)
    /\ points' = << >>
    /\ current_time' = f.start_time
    /\ i' = 0
    /\ running' = r
    /\ pc' = [pc EXCEPT ![r] =
          IF NumPoints(f.start_time, f.end_time, req[r].step) >= 1 THEN "loop" ELSE "ret"]
    /\ UNCHANGED << ts, build, profile, req, frame, resp, hist >>

\* Variant of FetchReturned: start_time and end_time are kept in module-level
\* names, so after the await they hold what some request in flight put there.
FetchReturnedSharedLocals(r) ==
    /\ running = 0 /\ pc[r] = "await"
    /\ \E q \in Req : frame[q] # NoFrame /\ StartSeries(r, frame[q])

FetchReturned(r) ==
    /\ running = 0 /\ pc[r] = "await"
    /\ StartSeries(r, frame[r])

\* One iteration of the for loop that appends a point.
LoopStep(r) ==
    /\ running = r /\ pc[r] = "loop"
    /\ LET at == propagate(satellite, ts_utc(ts, current_time))
           next_time == NextTime(frame[r].start_time, i, req[r].step)
       IN /\ at.exc = NoExc
          /\ points' = Append(points, [t |-> strftime(current_time),
                                       alt_km |-> altitude_km(at.km)])
          /\ current_time' = next_time
          /\ i' = i + 1
          /\ hist' = [hist EXCEPT ![r].propagations = @ + 1,
                                  ![r].failed = @ \/ at.km = NaNVector]
          /\ pc' = [pc EXCEPT ![r] = IF BreakNow(next_time, frame[r].end_time)
                                        \/ i + 1 >= num_points
                                     THEN "ret" ELSE "loop"]
    /\ UNCHANGED << ts, build, profile, running, req, frame, resp, tle, satellite, num_points >>

\* An iteration in which the propagator raises: the exception leaves
\* calculate_altitude_series and the handler's except clause answers.
LoopRaise(r) ==
    /\ running = r /\ pc[r] = "loop"
    /\ LET at == propagate(satellite, ts_utc(ts, current_time))
       IN /\ at.exc # NoExc
          /\ Answer(r, Translate(at.exc))
    /\ hist' = [hist EXCEPT ![r].propagations = @ + 1, ![r].failed = TRUE]
    /\ running' = 0
    /\ NoSeriesNext
    /\ UNCHANGED << ts, build, profile, req, frame >>

\* Variant of Return: the request leaves a mark on the shared timescale.
ReturnTouchingTimescale(r) ==
    /\ running = r /\ pc[r] = "ret"
    /\ Answer(r, Success(req[r], points, tle.epoch_str))
    /\ running' = 0
    /\ NoSeriesNext
    /\ ts' = [ts EXCEPT !.tt_minus_utc = @ + 1]
    /\ UNCHANGED << build, profile, req, frame, hist >>

\* The loop is over: return points, build the response.
Return(r) ==
    /\ running = r /\ pc[r] = "ret"
    /\ Answer(r, Success(req[r], points, tle.epoch_str))
    /\ running' = 0
    /\ NoSeriesNext
    /\ UNCHANGED << ts, build, profile, req, frame, hist >>

\* The answer is delivered and the request's slot is free again.
Close(r) ==
    /\ running = 0 /\ pc[r] = "done"
    /\ pc' = [pc EXCEPT ![r] = "idle"]
    /\ req' = [req EXCEPT ![r] = NoReq]
    /\ frame' = [frame EXCEPT ![r] = NoFrame]
    /\ resp' = [resp EXCEPT ![r] = NoResp]
    /\ hist' = [hist EXCEPT ![r] = NoHist]
    /\ UNCHANGED << ts, build, profile, running, SeriesVars >>

Next ==
    \E r \in Req :
        \/ ReceiveInvalidQuery(r)
        \/ ReceiveRejected(r)
        \/ ReceiveAccepted(r)
        \/ FetchFailed(r)
        \/ SatelliteRejected(r)
        \/ FetchReturned(r)
        \/ LoopStep(r)
        \/ LoopRaise(r)
        \/ Return(r)
        \/ Close(r)

Spec == Init /\ [][Next]_vars
SpecSolo == InitSolo /\ [][Next]_vars

\* =============================================================== claims
\* What the request is, read from its parameters alone.
StartOf(r) == fromisoformat(req[r].start)
EndOf(r) == fromisoformat(req[r].end)
Parsed(r) == IsoValid(req[r].start) /\ IsoValid(req[r].end)
ImpliedCount(r) == ((EndOf(r) - StartOf(r)) \div req[r].step) + 1
ValidWindow(r) ==
    /\ QueryValid(req[r])
    /\ Parsed(r)
    /\ StartOf(r) < EndOf(r)
    /\ ImpliedCount(r) <= MAX_DATA_POINTS

Instant(pts, k) == fromisoformat(pts[k].t)

\* The instants of pts start at start_time, increase strictly, stay at or
\* below end_time, and all adjacent pairs but possibly the last are step apart.
GridOK(pts, start_time, end_time, step) ==
    /\ \A k \in 1..Len(pts) : IsoValid(pts[k].t) /\ Instant(pts, k) <= end_time
    /\ pts # << >> => Instant(pts, 1) = start_time
    /\ \A k \in 1..(Len(pts) - 1) : Instant(pts, k) < Instant(pts, k + 1)
    /\ \A k \in 1..(Len(pts) - 2) : Instant(pts, k + 1) - Instant(pts, k) = step

\* C1: for every accepted window the sample instants calculate_altitude_series
\* produces are non-empty, strictly increasing, begin at start, end at or
\* before end, and are step seconds apart except possibly the final pair.
\* It holds of the list while it is built and of every list returned.
C1_TimeGrid ==
    \A r \in Req :
        /\ (running = r /\ ValidWindow(r)) =>
              /\ GridOK(points, StartOf(r), EndOf(r), req[r].step)
              /\ pc[r] = "ret" => points # << >>
        /\ (resp[r].status = 200 /\ ValidWindow(r)) =>
              /\ resp[r].body.points # << >>
              /\ GridOK(resp[r].body.points, StartOf(r), EndOf(r), req[r].step)

\* A returned series of three points whose last instant lies before end.
C1_Witness ==
    \E r \in Req :
        /\ resp[r].status = 200
        /\ Len(resp[r].body.points) = 3
        /\ Instant(resp[r].body.points, 3) < EndOf(r)

\* C2: the returned series has exactly floor((end - start) / step) + 1
\* samples, the count the handler's pre-check computed: the break never cuts
\* it short and the loop never runs longer.  The one-hour window at step 60
\* gives 61 points, the last at start + 3600 s.
C2_ExactCount ==
    \A r \in Req :
        /\ (running = r /\ pc[r] = "ret") => Len(points) = ImpliedCount(r)
        /\ resp[r].status = 200 =>
              /\ Len(resp[r].body.points) = ImpliedCount(r)
              /\ Len(resp[r].body.points) = frame[r].num_points
              /\ (EndOf(r) - StartOf(r) = 3600 /\ req[r].step = 60) =>
                    /\ Len(resp[r].body.points) = 61
                    /\ Instant(resp[r].body.points, 61) = StartOf(r) + 3600

\* The one-hour window at step 60 has been answered.
C2_Witness ==
    \E r \in Req :
        /\ resp[r].status = 200
        /\ EndOf(r) - StartOf(r) = 3600 /\ req[r].step = 60
        /\ Len(resp[r].body.points) = 61

\* C3: the point-count check is exact at the cap.  A window with start < end
\* is refused by the too-many-points check, before any fetch, exactly when
\* its implied count exceeds 20000 (so 20001 is refused and 20000 is not),
\* and no series, returned or under construction, holds more than 20000 points.
C3_ExactCap ==
    \A r \in Req :
        /\ (pc[r] # "idle" /\ QueryValid(req[r]) /\ Parsed(r) /\ StartOf(r) < EndOf(r)) =>
              /\ ImpliedCount(r) > MAX_DATA_POINTS =>
                    /\ resp[r].cause = HTTPException(400, "Too many data points")
                    /\ ~hist[r].fetched
              /\ ImpliedCount(r) <= MAX_DATA_POINTS =>
                    /\ resp[r].cause.detail # "Too many data points"
                    /\ hist[r].fetched
        /\ Len(resp[r].body.points) <= MAX_DATA_POINTS
        /\ Len(points) <= MAX_DATA_POINTS

\* A window implying exactly 20000 points has passed the checks: its fetch
\* is awaited.
C3_Witness ==
    \E r \in Req :
        /\ pc[r] = "await"
        /\ hist[r].fetched
        /\ ImpliedCount(r) = MAX_DATA_POINTS

\* C4: an invalid-window or too-many-points rejection raised in get_altitude
\* reaches the caller with the 400 status and the detail it was raised with,
\* not under the generic internal-error category.
C4_RejectionKeepsCategory ==
    \A r \in Req :
        resp[r].cause.detail \in { "Start time must be before end time", "Too many data points" }
            => /\ resp[r].status = resp[r].cause.status
               /\ resp[r].detail = resp[r].cause.detail

\* C5: if the propagator fails at any sample instant of the window, the
\* request ends without a response carrying points: no 200 response exists
\* for a request one of whose propagations failed.
C5_FailFast ==
    \A r \in Req :
        (pc[r] = "done" /\ hist[r].failed) =>
            /\ resp[r].status # 200
            /\ resp[r].body.points = << >>

\* C6: no sample with the altitude of a zero vector (-6371.0 km) or with an
\* undefined altitude is ever appended to a series.
DegenerateAltitudes == { NaN, Float(0 - 100 * EARTH_RADIUS_KM) }

C6_NoDegenerateSample ==
    /\ \A k \in 1..Len(points) : points[k].alt_km \notin DegenerateAltitudes
    /\ \A r \in Req :
          \A k \in 1..Len(resp[r].body.points) :
              resp[r].body.points[k].alt_km \notin DegenerateAltitudes

\* C7: a request whose fetched line 1 is malformed (too short, or with a
\* non-numeric epoch field) never ends in a successful response, and its
\* failure is not reported as an invalid timestamp.
FetchedMalformed(r) ==
    /\ hist[r].fetched
    /\ fetch_tle_from_celestrak(req[r].n).exc = NoExc
    /\ Malformed(fetch_tle_from_celestrak(req[r].n).line1)

C7_MalformedRejected ==
    \A r \in Req :
        (pc[r] = "done" /\ FetchedMalformed(r)) =>
            /\ resp[r].status # 200
            /\ resp[r].detail # "Invalid timestamp format"

\* C8: two runs with identical element lines and an identical window, in
\* any order and with any other requests before or between them, end with
\* identical responses.
C8_SameInputSameOutput ==
    \A r1, r2 \in Req :
        (pc[r1] = "done" /\ pc[r2] = "done" /\ req[r1] = req[r2]) => resp[r1] = resp[r2]

\* Two distinct requests with the same parameters have both been answered
\* with a series.
C8_Witness ==
    \E r1, r2 \in Req :
        /\ r1 # r2
        /\ req[r1] = req[r2]
        /\ resp[r1].status = 200 /\ resp[r2].status = 200
        /\ Len(resp[r1].body.points) >= 3

\* C9: a fetch is issued only for a request that passed the Query
\* constraints and both window checks, and a propagation is made only after
\* a fetch that returned lines; a request with step 3601, with start >= end
\* or with too many points never fetches and never propagates.
C9_ValidationFirst ==
    \A r \in Req :
        /\ hist[r].fetched => ValidWindow(r)
        /\ pc[r] \in { "await", "loop", "ret" } => hist[r].fetched
        /\ hist[r].propagations > 0 =>
              /\ hist[r].fetched
              /\ fetch_tle_from_celestrak(req[r].n).exc = NoExc
        /\ (pc[r] # "idle" /\ ~ValidWindow(r)) =>
              /\ pc[r] = "done"
              /\ hist[r].propagations = 0

\* A request with step 3601 has been refused while another request is
\* propagating.
C9_Witness ==
    \E r, q \in Req :
        /\ req[r].step = 3601 /\ pc[r] = "done" /\ resp[r].status # 200
        /\ ~hist[r].fetched
        /\ pc[q] = "loop" /\ hist[q].propagations > 0

\* The response of a request handled with no other request in the process:
\* the handler's steps in order, under the timescale as loaded.
SeriesAlone(sat, start_time, end_time, step) ==
    LET n == ((end_time - start_time) \div step) + 1
        at(k) == propagate(sat, ts_utc(load_timescale, start_time + k * step))
        raising == { k \in 0..(n - 1) : at(k).exc # NoExc }
    IN IF raising # { }
       THEN [exc |-> at(CHOOSE k \in raising : \A j \in raising : k <= j).exc, pts |-> << >>]
       ELSE [exc |-> NoExc,
             pts |-> [k \in 1..n |-> [t |-> strftime(start_time + (k - 1) * step),
                                      alt_km |-> altitude_km(at(k - 1).km)]]]

RunAlone(bld, inp) ==
    IF ~QueryValid(inp) THEN Unprocessable
    ELSE IF BeforeFetch(inp) # NoExc THEN Translate(BeforeFetch(inp))
    ELSE LET res == fetch_tle_from_celestrak(inp.n) IN
         IF res.exc # NoExc THEN Translate(res.exc)
         ELSE LET sat == EarthSatellite(bld, res.line1, res.line2) IN
              IF sat.exc # NoExc THEN Translate(sat.exc)
              ELSE LET series == SeriesAlone(sat, fromisoformat(inp.start),
                                             fromisoformat(inp.end), inp.step)
                   IN IF series.exc # NoExc THEN Translate(series.exc)
                      ELSE Success(inp, series.pts, EpochSlice(res.line1))

\* C10: under every interleaving of requests at the await, each request's
\* response equals the response it gets when run alone, and the shared
\* timescale is as it was loaded.
C10_Isolation ==
    /\ ts = load_timescale
    /\ \A r \in Req : pc[r] = "done" => resp[r] = RunAlone(build, req[r])

\* A request has been answered with its series while another request, with
\* other parameters, awaits its fetch.
C10_Witness ==
    \E r, q \in Req :
        /\ r # q
        /\ resp[r].status = 200 /\ Len(resp[r].body.points) = 3
        /\ pc[q] = "await" /\ req[q] # req[r]

====
